---- MODULE Spec2Model ----
(***************************************************************************)
(* The ledger of blockchain_supply_chain.py: the Block and Blockchain      *)
(* classes and the /nodes/resolve handler, as a state machine.             *)
(*                                                                         *)
(* JSON / Python values.  None (JSON null) is the empty tuple, a string    *)
(* that stands where None may also stand is a 1-tuple <<s>>, and a SHA-256 *)
(* hex digest is the 2-tuple <<"sha256", d>> of the dictionary d that was  *)
(* serialised: json.dumps(.., sort_keys=True) is canonical, so equal       *)
(* dictionaries give equal digests and different ones different digests.   *)
(* A Python dict is a record; a key that is absent is absent from the      *)
(* record's DOMAIN.  A Block object is the record of its __dict__: the     *)
(* attribute hash is in the DOMAIN only once it has been assigned.         *)
(***************************************************************************)
EXTENDS Integers, Sequences, FiniteSets, TLC

VARIABLES
    chain,                  \* Blockchain.chain: sequence of Block objects
    pending_transactions,   \* Blockchain.pending_transactions
    file,                   \* content of CHAIN_FILE as save_chain last wrote it
    now,                    \* the value time.time() returned last
    nextId,                 \* number of uuid4() values drawn so far
    last,                   \* the operation that ran last, its input and its result
    pc,                     \* per thread: the line the thread is about to run
    frame,                  \* per thread: the local variables of its call
    calls                   \* number of calls started so far

vars == <<chain, pending_transactions, file, now, nextId, last, pc, frame, calls>>

\* Program constant.
DIFFICULTY == 3

\* Bounds of the model.
MaxCalls == 3       \* calls made one after the other
MaxThreadCalls == 3 \* calls the threads start between them
MaxTime == 1        \* the latest value time.time() returns
MaxCand == 3        \* longest external chain posted to /nodes/resolve

Threads == 1..2

----------------------------------------------------------------------------
\* Values

Null == <<>>

Str(s) == <<s>>

\* A number where None may also stand
Num(n) == <<n>>

\* Python truthiness of a value that is None or a string.
Truthy(v) == v # Null /\ v # Str("")

\* dict.get(k, def)
Get(d, k, def) == IF k \in DOMAIN d THEN d[k] ELSE def

\* d[k] = v on a copy of d
Put(d, k, v) == [x \in DOMAIN d \cup {k} |-> IF x = k THEN v ELSE d[x]]

\* d without key k
Drop(d, k) == [x \in DOMAIN d \ {k} |-> d[x]]

----------------------------------------------------------------------------
\* class Block

Block(index, timestamp, transactions, previous_hash, nonce) ==
    [index |-> index, timestamp |-> timestamp, transactions |-> transactions,
     previous_hash |-> previous_hash, nonce |-> nonce]

\* sha256(json.dumps(self.__dict__, sort_keys=True)).hexdigest(): the digest
\* covers every attribute the object has at the time of the call.
compute_hash(block) == <<"sha256", block>>

\* The i-th leading character of a hex digest, as 0 for '0' and 1 for any
\* other character.  For a digest the leading characters are a fixed function
\* of the serialised dictionary in which the nonce counts through all
\* 2^DIFFICULTY prefixes; "000bad" is a string that is no digest of anything.
HexChar(h, i) ==
    IF Len(h) = 2
    THEN LET d == h[2]
             seed == 7 * d.index + d.timestamp + Len(d.transactions)
                     + (IF "hash" \in DOMAIN d THEN 3 ELSE 0)
         IN  ((seed + d.nonce) \div (2 ^ (i - 1))) % 2
    ELSE IF h = Str("000bad") THEN 0 ELSE 1

\* block_hash.startswith('0' * DIFFICULTY)
StartsWithZeros(h) == \A i \in 1..DIFFICULTY : HexChar(h, i) = 0

\* block.hash = h
SetHash(block, h) == Put(block, "hash", h)

----------------------------------------------------------------------------
\* class Blockchain: the methods that only compute

\* Variant of is_valid_proof: the hash is not compared with the digest.
is_valid_proof_prefix_only(block, block_hash) == StartsWithZeros(block_hash)

is_valid_proof(block, block_hash) ==
    StartsWithZeros(block_hash) /\ block_hash = compute_hash(block)

\* proof_of_work: the block as the search leaves it (its nonce set); the
\* value returned is compute_hash of that block.
RECURSIVE pow_search(_)
pow_search(block) ==
    IF StartsWithZeros(compute_hash(block))
    THEN block
    ELSE pow_search([block EXCEPT !.nonce = @ + 1])

proof_of_work(block) == pow_search([block EXCEPT !.nonce = 0])

\* _block_to_dict
block_to_dict(block) ==
    [index |-> block.index, timestamp |-> block.timestamp,
     transactions |-> block.transactions, previous_hash |-> block.previous_hash,
     nonce |-> block.nonce, hash |-> Get(block, "hash", Null)]

\* Block(bdict['index'], .., bdict.get('nonce', 0))
reconstruct(bdict) ==
    Block(bdict.index, bdict.timestamp, bdict.transactions, bdict.previous_hash,
          Get(bdict, "nonce", 0))

\* Variant of block_from_dict: a record without a hash gets none computed.
block_from_dict_no_default(bdict) ==
    SetHash(reconstruct(bdict), Get(bdict, "hash", Null))

\* b = Block(..); b.hash = bdict.get('hash', b.compute_hash())
block_from_dict(bdict) ==
    LET b == reconstruct(bdict)
    IN  SetHash(b, Get(bdict, "hash", compute_hash(b)))

\* computed_hash = block_dict.get('hash', None) or block.compute_hash()
stated_or_computed(block_dict) ==
    LET stated == Get(block_dict, "hash", Null)
    IN  IF Truthy(stated) THEN stated ELSE compute_hash(reconstruct(block_dict))

\* Variant of link_ok: the previous_hash comparison left out.
link_unchecked(block, last_hash) == TRUE

\* if block.previous_hash != last_block.hash: return False
link_ok(block, last_hash) == block.previous_hash = last_hash

\* The loop of is_chain_valid from position idx on (1-based), last_hash being
\* last_block.hash.
RECURSIVE chain_valid_from(_, _, _)
chain_valid_from(c, idx, last_hash) ==
    IF idx > Len(c) THEN TRUE
    ELSE LET block == reconstruct(c[idx])
             computed_hash == stated_or_computed(c[idx])
         IN  IF idx = 1 THEN chain_valid_from(c, idx + 1, computed_hash)
             ELSE IF ~link_ok(block, last_hash) THEN FALSE
             ELSE IF ~is_valid_proof(block, computed_hash) THEN FALSE
             ELSE chain_valid_from(c, idx + 1, computed_hash)

is_chain_valid(c) == IF c = <<>> THEN FALSE ELSE chain_valid_from(c, 1, Null)

\* get_product_history: the entries collected from one list of transactions
history_entries(transactions, product_id, block_index) ==
    LET found == SelectSeq(transactions,
                           LAMBDA tx : Get(tx, "product_id", Null) = product_id)
    IN  [k \in 1..Len(found) |->
            [block_index |-> block_index, tx |-> found[k],
             timestamp |-> IF "timestamp" \in DOMAIN found[k]
                           THEN Num(found[k].timestamp) ELSE Null]]

\* get_product_history, lines 170-177: the loop over the chain
RECURSIVE chain_history(_, _)
chain_history(ch, product_id) ==
    IF ch = <<>> THEN <<>>
    ELSE LET block == ch[Len(ch)]
         IN  chain_history(SubSeq(ch, 1, Len(ch) - 1), product_id)
                 \o history_entries(block.transactions, product_id,
                                    Num(block.index))

\* key=lambda x: x["timestamp"] or 0
sort_key(x) == IF x.timestamp = Null THEN 0 ELSE x.timestamp[1]

\* Variant of sorted: the list is returned in the order it was collected.
as_collected(history) == history

\* sorted(history, key=..): a stable sort, entries with equal keys keep their
\* order
RECURSIVE sorted(_)
sorted(history) ==
    IF history = <<>> THEN <<>>
    ELSE LET x == history[Len(history)]
             front == sorted(SubSeq(history, 1, Len(history) - 1))
             n == Cardinality({k \in 1..Len(front) : sort_key(front[k]) <= sort_key(x)})
         IN  SubSeq(front, 1, n) \o <<x>> \o SubSeq(front, n + 1, Len(front))

get_product_history(ch, pool, product_id) ==
    sorted(chain_history(ch, product_id)
               \o history_entries(pool, product_id, Null))

\* The data save_chain writes.
save_chain(ch, pool) ==
    [chain |-> [i \in 1..Len(ch) |-> block_to_dict(ch[i])],
     pending_transactions |-> pool]

\* full_chain: the chain as GET /chain exports it
full_chain == [i \in 1..Len(chain) |-> block_to_dict(chain[i])]

----------------------------------------------------------------------------
\* Inputs

\* Bodies posted to /transactions/new: one that leaves tx_id and timestamp to
\* the ledger, one that brings both.
TxInputs ==
    { [type |-> "create", product_id |-> Str("prod-0001"), from |-> Null,
       to |-> Str("manufacturer_1"), metadata |-> [batch |-> "BATCH-42"]],
      [type |-> "ship", product_id |-> Str("prod-0001"),
       from |-> Str("manufacturer_1"), to |-> Str("transporter_1"),
       tx_id |-> "tx-a", timestamp |-> 0] }

\* miner_id arguments of mine: None, the empty string, a name.
Miners == {Null, Str(""), Str("m1")}

\* The transactions a peer seals in each of its blocks; the second one has
\* no timestamp.
PeerTxs ==
    << [tx_id |-> "tx-p", type |-> "create", product_id |-> Str("prod-0002"),
        from |-> Null, to |-> Str("peer_1"), timestamp |-> 0],
       [tx_id |-> "tx-q", type |-> "receive", product_id |-> Str("prod-0001"),
        from |-> Str("peer_1"), to |-> Str("warehouse_1")] >>

\* The product ids asked about at /product/<product_id>/history.
Products == {Str("prod-0001"), Str("prod-0002"), Str("prod-0003")}

\* How one record of an external chain is made.  "ok" is the record of a block
\* a peer mined on the record before it; the other kinds differ from it in one
\* respect: the hash key left out, hash null, hash the empty string, the nonce
\* key left out, a hash string that is not the digest, a nonce one past the
\* one the search found (with the digest that goes with it), a block mined on
\* a previous_hash that is not
\* the predecessor's hash, a block mined with its index one too high, a key
\* that no block has.
Kinds ==
    {"ok", "nohash", "nullhash", "emptyhash", "nononce", "badhash", "unmined",
     "badlink", "skipindex", "extra"}

\* The record of a block mined by a peer from the given fields.
mined_record(index, previous_hash, transactions, search) ==
    LET b0 == Block(index, 0, transactions, previous_hash, 0)
        b == IF search THEN proof_of_work(b0) ELSE b0
    IN  block_to_dict(SetHash(b, compute_hash(b)))

forge_record(front, kind) ==
    LET first == front = <<>>
        index == (IF first THEN 0 ELSE front[Len(front)].index + 1)
                 + (IF kind = "skipindex" THEN 1 ELSE 0)
        prev == IF kind = "badlink" THEN Str("tampered")
                ELSE IF first THEN Str("0")
                ELSE stated_or_computed(front[Len(front)])
        txs == IF first THEN << [genesis |-> TRUE] >> ELSE PeerTxs
        r == mined_record(index, prev, txs, ~first)
        next == reconstruct(Put(r, "nonce", r.nonce + 1))
    IN  CASE kind = "nohash" -> Drop(r, "hash")
          [] kind = "nullhash" -> Put(r, "hash", Null)
          [] kind = "emptyhash" -> Put(r, "hash", Str(""))
          [] kind = "unmined" -> block_to_dict(SetHash(next, compute_hash(next)))
          [] kind = "nononce" -> Drop(r, "nonce")
          [] kind = "badhash" -> Put(r, "hash", Str("000bad"))
          [] kind = "extra" -> Put(r, "note", Str("seen"))
          [] OTHER -> r

RECURSIVE forge(_)
forge(kinds) ==
    IF kinds = <<>> THEN <<>>
    ELSE LET front == forge(SubSeq(kinds, 1, Len(kinds) - 1))
         IN  Append(front, forge_record(front, kinds[Len(kinds)]))

\* At most one record of an external chain is not "ok".
KindSeqs ==
    { ks \in UNION { [1..n -> Kinds] : n \in 0..MaxCand } :
        \A i, j \in DOMAIN ks : ks[i] # "ok" /\ ks[j] # "ok" => i = j }

\* The external chains posted to /nodes/resolve.
Candidates == { forge(ks) : ks \in KindSeqs }

----------------------------------------------------------------------------
\* Blockchain.__init__ with no CHAIN_FILE: load_chain leaves both lists empty,
\* the genesis block is created, hashed and saved.

\* Variant of genesis_block: the genesis block is given no previous_hash.
genesis_block_unlinked(t) ==
    LET b == Block(0, t, << [genesis |-> TRUE] >>, Null, 0)
    IN  SetHash(b, compute_hash(b))

genesis_block(t) ==
    LET b == Block(0, t, << [genesis |-> TRUE] >>, Str("0"), 0)
    IN  SetHash(b, compute_hash(b))

Init ==
    /\ chain = << genesis_block(0) >>
    /\ pending_transactions = <<>>
    /\ file = save_chain(<< genesis_block(0) >>, <<>>)
    /\ now = 0
    /\ nextId = 0
    /\ last = [op |-> "init"]
    /\ pc = [t \in Threads |-> "idle"]
    /\ frame = [t \in Threads |-> [op |-> "none"]]
    /\ calls = 0

\* time.time(): the values a read of the clock can return, none earlier than
\* the one before.  A read whose value is not used returns the last one.
Clock(used) == IF used THEN now..MaxTime ELSE {now}

----------------------------------------------------------------------------
\* The operations, each run from start to end with no other in between

\* A call is made.
Call == calls < MaxCalls /\ calls' = calls + 1

\* str(uuid4()): the n-th value drawn
uuid(n) == ToString(n)

\* new_transaction, lines 77-80: the record that is stored and returned
stored_tx(transaction, id, t) ==
    LET tx == IF "tx_id" \in DOMAIN transaction THEN transaction
              ELSE Put(transaction, "tx_id", uuid(id))
    IN  Put(tx, "timestamp", Get(tx, "timestamp", t))

new_transaction(transaction) ==
    \E t \in Clock("timestamp" \notin DOMAIN transaction) :
        LET tx == stored_tx(transaction, nextId + 1, t)
        IN  /\ Call
            /\ now' = t
            /\ nextId' = IF "tx_id" \in DOMAIN transaction THEN nextId
                          ELSE nextId + 1
            /\ pending_transactions' = Append(pending_transactions, tx)
            /\ file' = save_chain(chain, pending_transactions')
            /\ last' = [op |-> "submit"]
            /\ UNCHANGED <<chain, pc, frame>>

\* Variant of nothing_to_mine: the empty-pool test left out.
nothing_to_mine_never(pool) == FALSE

\* if not self.pending_transactions: return None
nothing_to_mine(pool) == pool = <<>>

\* Variant of candidate_block: the index of the head is used as it is.
candidate_block_same_index(last_block, t, pool) ==
    Block(last_block.index, t, pool, last_block.hash, 0)

\* mine, lines 108-112: the candidate block
candidate_block(last_block, t, pool) ==
    Block(last_block.index + 1, t, pool, last_block.hash, 0)

\* add_block, lines 86-90: both checks pass
add_block_ok(ch, block, proof) ==
    /\ ch[Len(ch)].hash = block.previous_hash
    /\ is_valid_proof(block, proof)

\* mine, lines 118-126
reward_tx(miner_id, block_index, id, t) ==
    [tx_id |-> uuid(id), type |-> "reward", product_id |-> Null, from |-> Null,
     to |-> miner_id,
     metadata |-> [reward |-> "mined_block", block_index |-> block_index],
     timestamp |-> t]

\* mine, line 117: if miner_id
rewarded(miner_id) == Truthy(miner_id)

\* Variant of pool_after_mine: the pool is left as it is.
pool_after_mine_kept(miner_id, block_index, id, t) == pending_transactions

\* Variant of pool_after_mine: the pool is cleared, no reward is recorded.
pool_after_mine_cleared(miner_id, block_index, id, t) == <<>>

\* mine, lines 117-129: the pool after a block was added
pool_after_mine(miner_id, block_index, id, t) ==
    IF rewarded(miner_id) THEN << reward_tx(miner_id, block_index, id, t) >>
    ELSE <<>>

mine(miner_id) ==
    /\ Call
    /\ IF nothing_to_mine(pending_transactions)
       THEN /\ last' = [op |-> "mine", miner_id |-> miner_id,
                        outcome |-> "nothing_to_mine"]
            /\ UNCHANGED <<chain, pending_transactions, file, now, nextId, pc, frame>>
       ELSE \E t1 \in Clock(TRUE) :
            LET new_block == proof_of_work(
                    candidate_block(chain[Len(chain)], t1, pending_transactions))
                proof == compute_hash(new_block)
                added == add_block_ok(chain, new_block, proof)
            IN  /\ IF added
                   THEN \E t2 \in (IF rewarded(miner_id) THEN t1..MaxTime ELSE {t1}) :
                        /\ chain' = Append(chain, SetHash(new_block, proof))
                        /\ pending_transactions' =
                               pool_after_mine(miner_id, new_block.index,
                                               nextId + 1, t2)
                        /\ nextId' = IF rewarded(miner_id) THEN nextId + 1
                                      ELSE nextId
                        /\ now' = t2
                        /\ file' = save_chain(chain', pending_transactions')
                        /\ last' = [op |-> "mine", miner_id |-> miner_id,
                                    outcome |-> "mined"]
                   ELSE /\ last' = [op |-> "mine", miner_id |-> miner_id,
                                    outcome |-> "not_added"]
                        /\ now' = t1
                        /\ UNCHANGED <<chain, pending_transactions, file, nextId>>
                /\ UNCHANGED <<pc, frame>>

\* Variant of too_short: a candidate as long as the local chain is let through.
too_short_strict(external_chain, ch) == Len(external_chain) < Len(ch)

\* Variant of too_short: the length comparison left out.
too_short_never(external_chain, ch) == FALSE

\* consensus, line 313
too_short(external_chain, ch) == Len(external_chain) <= Len(ch)

\* consensus, lines 317-321
rebuilt_chain(external_chain) ==
    [i \in 1..Len(external_chain) |-> block_from_dict(external_chain[i])]

\* The result of consensus: "error" (no chain given), "too_short", "replaced",
\* "invalid"
consensus_outcome(external_chain, ch) ==
    IF external_chain = <<>> THEN "error"
    ELSE IF too_short(external_chain, ch) THEN "too_short"
    ELSE IF is_chain_valid(external_chain) THEN "replaced"
    ELSE "invalid"

consensus(external_chain) ==
    LET outcome == consensus_outcome(external_chain, chain)
    IN  /\ Call
        /\ last' = [op |-> "consensus", cand |-> external_chain,
                    outcome |-> outcome,
                    validated |-> outcome \in {"replaced", "invalid"}]
        /\ IF outcome = "replaced"
           THEN /\ chain' = rebuilt_chain(external_chain)
                /\ file' = save_chain(chain', pending_transactions)
           ELSE UNCHANGED <<chain, file>>
        /\ UNCHANGED <<pending_transactions, now, nextId, pc, frame>>

Submit == \E transaction \in TxInputs : new_transaction(transaction)

Mine == \E miner_id \in Miners : mine(miner_id)

Resolve == \E external_chain \in Candidates : consensus(external_chain)

Next == Submit \/ Mine \/ Resolve

Spec == Init /\ [][Next]_vars

\* is_chain_valid applied to an external chain, on a ledger in use.
CheckChain ==
    \E external_chain \in Candidates :
        /\ Call
        /\ last' = [op |-> "is_chain_valid", cand |-> external_chain,
                    result |-> is_chain_valid(external_chain)]
        /\ UNCHANGED <<chain, pending_transactions, file, now, nextId, pc, frame>>

CheckNext == Submit \/ Mine \/ CheckChain

CheckSpec == Init /\ [][CheckNext]_vars

\* Variant of loaded_block: the hash is computed anew, the saved one ignored.
loaded_block_rehashed(bdict) ==
    SetHash(reconstruct(bdict), compute_hash(reconstruct(bdict)))

\* The chains a ledger starts its work with: the one it was constructed with,
\* or one that a fork resolution installed.
StartChains ==
    { << genesis_block(0) >> }
    \cup { rebuilt_chain(c) :
               c \in { c \in Candidates :
                          consensus_outcome(c, << genesis_block(0) >>) = "replaced" } }

InstalledInit ==
    \E ch \in StartChains :
        /\ chain = ch
        /\ pending_transactions = <<>>
        /\ file = save_chain(ch, <<>>)
        /\ now = 0
        /\ nextId = 0
        /\ last = [op |-> "init"]
        /\ pc = [u \in Threads |-> "idle"]
        /\ frame = [u \in Threads |-> [op |-> "none"]]
        /\ calls = 0

\* load_chain, lines 216-217: the block made of one saved record
loaded_block(bdict) ==
    LET b == reconstruct(bdict)
    IN  SetHash(b, Get(bdict, "hash", compute_hash(b)))

\* load_chain, lines 212-220: the chain and the pool read from the file.  What
\* json.load reads is what json.dump wrote: the ledger holds None, booleans,
\* numbers, strings, lists and dictionaries with string keys.
load_chain(data) ==
    LET chain_list == Get(data, "chain", <<>>)
    IN  [chain |-> [i \in 1..Len(chain_list) |-> loaded_block(chain_list[i])],
         pending_transactions |-> Get(data, "pending_transactions", <<>>)]

\* save_chain() followed by load_chain()
reload ==
    LET data == save_chain(chain, pending_transactions)
    IN  /\ file' = data
        /\ chain' = load_chain(data).chain
        /\ pending_transactions' = load_chain(data).pending_transactions
        /\ last' = [op |-> "reload"]
        /\ UNCHANGED <<now, nextId, pc, frame, calls>>

PersistNext == Submit \/ Mine \/ reload

PersistSpec == InstalledInit /\ [][PersistNext]_vars

\* /product/<product_id>/history
product_history(product_id) ==
    /\ last' = [op |-> "history", product_id |-> product_id,
                history |-> get_product_history(chain, pending_transactions,
                                                product_id)]
    /\ UNCHANGED <<chain, pending_transactions, file, now, nextId, pc, frame, calls>>

History == \E product_id \in Products : product_history(product_id)

HistoryNext == Submit \/ Mine \/ History

HistorySpec == InstalledInit /\ [][HistoryNext]_vars

\* The same calls when save_chain raises (open or json.dump fails): the
\* exception leaves the method at the line of the save and reaches the caller.

\* The file after a save that failed: as it was when open failed, cut short
\* and unreadable (None here) when the write failed.
failed_save(f) == {f, Null}

\* new_transaction whose save, line 82, fails
new_transaction_save_fails(transaction) ==
    \E t \in Clock("timestamp" \notin DOMAIN transaction) :
        /\ Call
        /\ now' = t
        /\ nextId' = IF "tx_id" \in DOMAIN transaction THEN nextId ELSE nextId + 1
        /\ pending_transactions' =
               Append(pending_transactions, stored_tx(transaction, nextId + 1, t))
        /\ file' \in failed_save(file)
        /\ last' = [op |-> "submit", outcome |-> "save_failed"]
        /\ UNCHANGED <<chain, pc, frame>>

\* mine whose block is added and whose save inside add_block, line 93, fails:
\* lines 94 and 115-131 are not run
mine_add_block_save_fails(miner_id) ==
    /\ Call
    /\ ~nothing_to_mine(pending_transactions)
    /\ \E t1 \in Clock(TRUE) :
           LET new_block == proof_of_work(
                   candidate_block(chain[Len(chain)], t1, pending_transactions))
               proof == compute_hash(new_block)
           IN  /\ add_block_ok(chain, new_block, proof)
               /\ chain' = Append(chain, SetHash(new_block, proof))
               /\ now' = t1
    /\ file' \in failed_save(file)
    /\ last' = [op |-> "mine", miner_id |-> miner_id, outcome |-> "save_failed"]
    /\ UNCHANGED <<pending_transactions, nextId, pc, frame>>

\* mine whose save inside add_block succeeds and whose own save, line 130,
\* fails
mine_save_fails(miner_id) ==
    /\ Call
    /\ ~nothing_to_mine(pending_transactions)
    /\ \E t1 \in Clock(TRUE) :
           LET new_block == proof_of_work(
                   candidate_block(chain[Len(chain)], t1, pending_transactions))
               proof == compute_hash(new_block)
           IN  /\ add_block_ok(chain, new_block, proof)
               /\ chain' = Append(chain, SetHash(new_block, proof))
               /\ \E t2 \in (IF rewarded(miner_id) THEN t1..MaxTime ELSE {t1}) :
                      /\ pending_transactions' =
                             pool_after_mine(miner_id, new_block.index,
                                             nextId + 1, t2)
                      /\ now' = t2
    /\ nextId' = IF rewarded(miner_id) THEN nextId + 1 ELSE nextId
    /\ file' \in failed_save(save_chain(chain', pending_transactions))
    /\ last' = [op |-> "mine", miner_id |-> miner_id, outcome |-> "save_failed"]
    /\ UNCHANGED <<pc, frame>>

\* consensus whose save, line 323, fails
consensus_save_fails(external_chain) ==
    /\ Call
    /\ consensus_outcome(external_chain, chain) = "replaced"
    /\ chain' = rebuilt_chain(external_chain)
    /\ file' \in failed_save(file)
    /\ last' = [op |-> "consensus", cand |-> external_chain,
                outcome |-> "save_failed", validated |-> TRUE]
    /\ UNCHANGED <<pending_transactions, now, nextId, pc, frame>>

SubmitSaveFails ==
    \E transaction \in TxInputs : new_transaction_save_fails(transaction)

MineAddBlockSaveFails == \E miner_id \in Miners : mine_add_block_save_fails(miner_id)

MineSaveFails == \E miner_id \in Miners : mine_save_fails(miner_id)

ResolveSaveFails ==
    \E external_chain \in Candidates : consensus_save_fails(external_chain)

FailNext ==
    \/ Submit
    \/ Mine
    \/ Resolve
    \/ SubmitSaveFails
    \/ MineAddBlockSaveFails
    \/ MineSaveFails
    \/ ResolveSaveFails

FailSpec == Init /\ [][FailNext]_vars

\* Python objects are shared, not copied: new_transaction appends the dict tx
\* and returns that same dict (lines 81, 83); tx is a shallow copy of the
\* caller's dict (line 77), so the two share the metadata dict; and the block
\* mine builds holds a copy of the list (line 111), that is, the same dicts.
\* Run one after the other, the calls leave every such dict at one place: in
\* the pool, or, once mined, in its block.  <<0, k>> is the k-th entry of the
\* pool, <<i, j>> the j-th transaction of the i-th block.
returned_places ==
    { <<0, k>> : k \in { k \in 1..Len(pending_transactions) :
                            pending_transactions[k].type # "reward" } }
    \cup
    UNION { { <<i, j>> : j \in { j \in 1..Len(chain[i].transactions) :
                  chain[i].transactions[j].type # "reward" } } :
            i \in 2..Len(chain) }

\* The dict a place refers to.
dict_at(place) ==
    IF place[1] = 0
    THEN pending_transactions[place[2]]
    ELSE chain[place[1]].transactions[place[2]]

\* The dict at a place is changed in place: every list that holds it sees tx.
assign(place, tx) ==
    /\ IF place[1] = 0
       THEN /\ pending_transactions' =
                   [pending_transactions EXCEPT ![place[2]] = tx]
            /\ UNCHANGED chain
       ELSE /\ chain' = [chain EXCEPT
                             ![place[1]].transactions[place[2]] = tx]
            /\ UNCHANGED pending_transactions
    /\ last' = [op |-> "assign", place |-> place]
    /\ UNCHANGED <<file, now, nextId, pc, frame, calls>>

\* The caller of new_transaction assigns to a key of the dict it got back:
\* tx["product_id"] = "changed"
assign_returned ==
    \E place \in returned_places :
        assign(place, Put(dict_at(place), "product_id", Str("changed")))

\* The caller of new_transaction assigns to a key of the metadata of the dict
\* it passed in: transaction["metadata"]["batch"] = "changed"
assign_metadata ==
    \E place \in returned_places :
        /\ "metadata" \in DOMAIN dict_at(place)
        /\ assign(place,
                  [dict_at(place) EXCEPT !.metadata = Put(@, "batch", "changed")])

SharedNext == Submit \/ Mine \/ assign_returned \/ assign_metadata

SharedSpec == Init /\ [][SharedNext]_vars

\* A ledger that is only submitted to and mined on, constructed at any time.
LocalInit ==
    \E t \in 0..MaxTime :
        /\ chain = << genesis_block(t) >>
        /\ pending_transactions = <<>>
        /\ file = save_chain(<< genesis_block(t) >>, <<>>)
        /\ now = t
        /\ nextId = 0
        /\ last = [op |-> "init"]
        /\ pc = [u \in Threads |-> "idle"]
        /\ frame = [u \in Threads |-> [op |-> "none"]]
        /\ calls = 0

LocalNext == Submit \/ Mine

LocalSpec == LocalInit /\ [][LocalNext]_vars

----------------------------------------------------------------------------
\* The same operations run by threads.  The code takes no lock, so a thread
\* may be overtaken between any two lines that read or write the ledger; the
\* lines between two such points are one step.  pc[t] names the next line of
\* thread t, frame[t] holds its local variables.

Idle == [op |-> "none"]

\* A call is taken up by an idle thread; idle threads do not differ, so it is
\* the first of them.
Start(t) ==
    /\ pc[t] = "idle"
    /\ \A u \in Threads : pc[u] = "idle" => t <= u
    /\ calls < MaxThreadCalls
    /\ calls' = calls + 1

Return(t, op, outcome) ==
    /\ pc' = [pc EXCEPT ![t] = "idle"]
    /\ frame' = [frame EXCEPT ![t] = Idle]
    /\ last' = [op |-> op, outcome |-> outcome]

Goto(t, line, locals) ==
    /\ pc' = [pc EXCEPT ![t] = line]
    /\ frame' = [frame EXCEPT ![t] = locals]
    /\ UNCHANGED last

\* new_transaction, lines 77-81
SubmitAppend(t, transaction) ==
    /\ Start(t)
    /\ \E time \in Clock("timestamp" \notin DOMAIN transaction) :
           /\ now' = time
           /\ pending_transactions' =
                  Append(pending_transactions,
                         stored_tx(transaction, nextId + 1, time))
    /\ nextId' = IF "tx_id" \in DOMAIN transaction THEN nextId ELSE nextId + 1
    /\ Goto(t, "submit_save", [op |-> "submit"])
    /\ UNCHANGED <<chain, file>>

\* new_transaction, lines 82-83
SubmitSave(t) ==
    /\ pc[t] = "submit_save"
    /\ file' = save_chain(chain, pending_transactions)
    /\ Return(t, "submit", "stored")
    /\ UNCHANGED <<chain, pending_transactions, now, nextId, calls>>

\* mine, lines 105-106
MineEmpty(t, miner_id) ==
    /\ Start(t)
    /\ nothing_to_mine(pending_transactions)
    /\ Return(t, "mine", "nothing_to_mine")
    /\ UNCHANGED <<chain, pending_transactions, file, now, nextId>>

\* mine, lines 105 and 108
MineHead(t, miner_id) ==
    /\ Start(t)
    /\ ~nothing_to_mine(pending_transactions)
    /\ Goto(t, "mine_build",
            [op |-> "mine", miner_id |-> miner_id, last_block |-> chain[Len(chain)]])
    /\ UNCHANGED <<chain, pending_transactions, file, now, nextId>>

\* mine, lines 109-113: the pool is copied, the nonce searched
MineBuild(t) ==
    /\ pc[t] = "mine_build"
    /\ \E time \in Clock(TRUE) :
           LET new_block == proof_of_work(
                   candidate_block(frame[t].last_block, time, pending_transactions))
           IN  /\ now' = time
               /\ Goto(t, "add_check",
                       [op |-> "mine", miner_id |-> frame[t].miner_id,
                        new_block |-> new_block,
                        proof |-> compute_hash(new_block)])
    /\ UNCHANGED <<chain, pending_transactions, file, nextId, calls>>

\* add_block, lines 86-91, and lines 132-133 of mine when a check fails
AddCheck(t) ==
    /\ pc[t] = "add_check"
    /\ IF add_block_ok(chain, frame[t].new_block, frame[t].proof)
       THEN Goto(t, "add_append",
                 [frame[t] EXCEPT
                     !.new_block = SetHash(frame[t].new_block, frame[t].proof)])
       ELSE Return(t, "mine", "not_added")
    /\ UNCHANGED <<chain, pending_transactions, file, now, nextId, calls>>

\* add_block, line 92
AddAppend(t) ==
    /\ pc[t] = "add_append"
    /\ chain' = Append(chain, frame[t].new_block)
    /\ Goto(t, "add_save", frame[t])
    /\ UNCHANGED <<pending_transactions, file, now, nextId, calls>>

\* add_block, lines 93-94
AddSave(t) ==
    /\ pc[t] = "add_save"
    /\ file' = save_chain(chain, pending_transactions)
    /\ Goto(t, "mine_reset", frame[t])
    /\ UNCHANGED <<chain, pending_transactions, now, nextId, calls>>

\* mine, lines 115-129
MineReset(t) ==
    /\ pc[t] = "mine_reset"
    /\ \E time \in Clock(rewarded(frame[t].miner_id)) :
           /\ now' = time
           /\ pending_transactions' =
                  pool_after_mine(frame[t].miner_id, frame[t].new_block.index,
                                  nextId + 1, time)
    /\ nextId' = IF rewarded(frame[t].miner_id) THEN nextId + 1 ELSE nextId
    /\ Goto(t, "mine_save", frame[t])
    /\ UNCHANGED <<chain, file, calls>>

\* mine, lines 130-131
MineSave(t) ==
    /\ pc[t] = "mine_save"
    /\ file' = save_chain(chain, pending_transactions)
    /\ Return(t, "mine", "mined")
    /\ UNCHANGED <<chain, pending_transactions, now, nextId, calls>>

\* consensus, lines 309-314, 326: the request is answered without a write
ResolveReject(t, external_chain) ==
    /\ Start(t)
    /\ consensus_outcome(external_chain, chain) # "replaced"
    /\ Return(t, "consensus", consensus_outcome(external_chain, chain))
    /\ UNCHANGED <<chain, pending_transactions, file, now, nextId>>

\* consensus, lines 309-321: the chain is longer and valid, new_chain is built
ResolveBuild(t, external_chain) ==
    /\ Start(t)
    /\ consensus_outcome(external_chain, chain) = "replaced"
    /\ Goto(t, "resolve_install",
            [op |-> "consensus", new_chain |-> rebuilt_chain(external_chain)])
    /\ UNCHANGED <<chain, pending_transactions, file, now, nextId>>

\* consensus, line 322
ResolveInstall(t) ==
    /\ pc[t] = "resolve_install"
    /\ chain' = frame[t].new_chain
    /\ Goto(t, "resolve_save", frame[t])
    /\ UNCHANGED <<pending_transactions, file, now, nextId, calls>>

\* consensus, lines 323-324
ResolveSave(t) ==
    /\ pc[t] = "resolve_save"
    /\ file' = save_chain(chain, pending_transactions)
    /\ Return(t, "consensus", "replaced")
    /\ UNCHANGED <<chain, pending_transactions, now, nextId, calls>>

ThreadSubmit == \E t \in Threads : \E transaction \in TxInputs : SubmitAppend(t, transaction)

ThreadSubmitSave == \E t \in Threads : SubmitSave(t)

ThreadMineEmpty == \E t \in Threads : \E miner_id \in Miners : MineEmpty(t, miner_id)

ThreadMineHead == \E t \in Threads : \E miner_id \in Miners : MineHead(t, miner_id)

ThreadMineBuild == \E t \in Threads : MineBuild(t)

ThreadAddCheck == \E t \in Threads : AddCheck(t)

ThreadAddAppend == \E t \in Threads : AddAppend(t)

ThreadAddSave == \E t \in Threads : AddSave(t)

ThreadMineReset == \E t \in Threads : MineReset(t)

ThreadMineSave == \E t \in Threads : MineSave(t)

ThreadResolveReject ==
    \E t \in Threads : \E external_chain \in Candidates : ResolveReject(t, external_chain)

ThreadResolveBuild ==
    \E t \in Threads : \E external_chain \in Candidates : ResolveBuild(t, external_chain)

ThreadResolveInstall == \E t \in Threads : ResolveInstall(t)

ThreadResolveSave == \E t \in Threads : ResolveSave(t)

ThreadNext ==
    \/ ThreadSubmit \/ ThreadSubmitSave
    \/ ThreadMineEmpty \/ ThreadMineHead \/ ThreadMineBuild
    \/ ThreadAddCheck \/ ThreadAddAppend \/ ThreadAddSave
    \/ ThreadMineReset \/ ThreadMineSave
    \/ ThreadResolveReject \/ ThreadResolveBuild
    \/ ThreadResolveInstall \/ ThreadResolveSave

ThreadSpec == Init /\ [][ThreadNext]_vars

----------------------------------------------------------------------------
\* Properties

\* The digest of a block's index, timestamp, transactions, previous_hash and
\* nonce, whatever else the object carries.
digest_of_fields(b) ==
    <<"sha256", [index |-> b.index, timestamp |-> b.timestamp,
                 transactions |-> b.transactions,
                 previous_hash |-> b.previous_hash, nonce |-> b.nonce]>>

\* The last call was a fork resolution that gave this outcome.
Resolved(outcome) == last.op = "consensus" /\ last.outcome = outcome

\* C1: every non-genesis block of the local chain has a stored hash that
\* begins with DIFFICULTY '0' characters and equals the digest recomputed over
\* its index, timestamp, transactions, previous_hash and nonce.
C1_ProofOfWorkValidity ==
    \A i \in 2..Len(chain) :
        /\ "hash" \in DOMAIN chain[i]
        /\ StartsWithZeros(chain[i].hash)
        /\ chain[i].hash = digest_of_fields(chain[i])

\* C2: for all i > 0, chain[i].previous_hash equals the stored hash of
\* chain[i-1].
C2_ChainLinkage ==
    \A i \in 2..Len(chain) : chain[i].previous_hash = chain[i - 1].hash

\* C3: the indices of the local chain are 0, 1, 2, ... (positions are 1-based
\* here).
C3_IndexSequence ==
    \A i \in 1..Len(chain) : chain[i].index = i - 1

\* Thread t takes the step from line `from` to line `to`.
Steps(t, from, to) == pc[t] = from /\ pc'[t] = to

\* C4: when a mine resets the pool, every entry of the pool that is not part
\* of the block it sealed (a transaction submitted after its snapshot) is
\* still in the pool afterwards.
C4_NoLostSubmission ==
    [][\A t \in Threads :
          Steps(t, "mine_reset", "mine_save") =>
              \A k \in 1..Len(pending_transactions) :
                  LET sealed == frame[t].new_block.transactions
                  IN  (k > Len(sealed) \/ pending_transactions[k] # sealed[k])
                      => \E j \in 1..Len(pending_transactions') :
                             pending_transactions'[j] = pending_transactions[k]
      ]_vars

\* C5: the re-check of the head and the append are one atomic step: whenever a
\* mine appends its block, the block's previous_hash is the hash of the block
\* it is appended to.
C5_AppendOnCheckedHead ==
    [][\A t \in Threads :
          Steps(t, "add_append", "add_save") =>
              frame[t].new_block.previous_hash = chain[Len(chain)].hash
      ]_vars

\* C6: a fork resolution whose candidate is no longer than the local chain
\* rejects it without validating it and changes neither the chain, the pool
\* nor the saved file.
C6_TooShortRejected ==
    [][(last'.op = "consensus" /\ Len(last'.cand) <= Len(chain)) =>
          /\ last'.outcome \in {"error", "too_short"}
          /\ ~last'.validated
          /\ chain' = chain
          /\ pending_transactions' = pending_transactions
          /\ file' = file
      ]_vars

\* A valid candidate as long as the local chain, and different from it, was
\* turned down as too short.
C6_Witness ==
    /\ Resolved("too_short")
    /\ Len(chain) > 1
    /\ Len(last.cand) = Len(chain)
    /\ is_chain_valid(last.cand)
    /\ last.cand # full_chain

\* C7 as stated: after a replacement the exported chain equals the candidate
\* records exactly.
C7_ExportEqualsCandidate ==
    Resolved("replaced") => full_chain = last.cand

\* The six keys of an exported block.
BlockKeys == {"index", "timestamp", "transactions", "previous_hash", "nonce", "hash"}

\* The six block keys of a candidate record, the ones it lacks filled in:
\* nonce 0, and the digest of its five fields as hash.
completed(r) ==
    LET nonce == IF "nonce" \in DOMAIN r THEN r.nonce ELSE 0
        five == [index |-> r.index, timestamp |-> r.timestamp,
                 transactions |-> r.transactions,
                 previous_hash |-> r.previous_hash, nonce |-> nonce]
    IN  [index |-> r.index, timestamp |-> r.timestamp,
         transactions |-> r.transactions, previous_hash |-> r.previous_hash,
         nonce |-> nonce,
         hash |-> IF "hash" \in DOMAIN r THEN r.hash ELSE <<"sha256", five>>]

\* C7 (amended): after a replacement the exported chain equals the candidate
\* records taken on the six block keys, an absent nonce shown as 0 and an
\* absent hash shown as the digest of the record's other five fields; a record
\* that carries exactly the six keys is exported exactly.
C7_ExportEqualsCompletedCandidate ==
    Resolved("replaced") =>
        /\ full_chain = [i \in 1..Len(last.cand) |-> completed(last.cand[i])]
        /\ \A i \in 1..Len(last.cand) :
               DOMAIN last.cand[i] = BlockKeys => full_chain[i] = last.cand[i]

\* A candidate with a record that lacks its hash or its nonce was installed,
\* its other record exported as it was posted.
C7_Witness ==
    /\ Resolved("replaced")
    /\ \E i, j \in 1..Len(last.cand) :
           /\ ~({"nonce", "hash"} \subseteq DOMAIN last.cand[i])
           /\ DOMAIN last.cand[j] = BlockKeys
           /\ full_chain[j] = last.cand[j]

\* The hash of a candidate record: the one it states, or the digest of its
\* fields when it states none.
record_hash(r) ==
    IF "hash" \in DOMAIN r /\ r.hash # Null /\ r.hash # Str("")
    THEN r.hash
    ELSE completed(Drop(r, "hash")).hash

\* Some non-genesis record's previous_hash is not its predecessor's hash.
HasBrokenLink(c) ==
    \E i \in 2..Len(c) : c[i].previous_hash # record_hash(c[i - 1])

\* C8: a candidate longer than the local chain with a broken previous_hash
\* link is rejected as "invalid", and chain, pool and saved file stay as they
\* were.
C8_BrokenLinkRejected ==
    [][(/\ last'.op = "consensus"
        /\ Len(last'.cand) > Len(chain)
        /\ HasBrokenLink(last'.cand)) =>
          /\ last'.outcome = "invalid"
          /\ chain' = chain
          /\ pending_transactions' = pending_transactions
          /\ file' = file
      ]_vars

\* A candidate whose only fault is a broken link was rejected as invalid.
C8_Witness ==
    /\ Resolved("invalid")
    /\ HasBrokenLink(last.cand)
    /\ \A i \in 2..Len(last.cand) :
           is_valid_proof(reconstruct(last.cand[i]), record_hash(last.cand[i]))

\* C9: mine called with an empty pool answers "nothing to mine" and changes
\* nothing, so any number of such calls in a row leave the state of the first.
C9_EmptyMineIsNoOp ==
    [][(last'.op = "mine" /\ pending_transactions = <<>>) =>
          /\ last'.outcome = "nothing_to_mine"
          /\ chain' = chain
          /\ pending_transactions' = pending_transactions
          /\ file' = file
          /\ nextId' = nextId
      ]_vars

\* mine has just answered "nothing to mine" on a ledger that had been used.
C9_Witness ==
    /\ last.op = "mine"
    /\ last.outcome = "nothing_to_mine"
    /\ pending_transactions = <<>>
    /\ Len(chain) > 1

\* The pool is one reward transaction to miner_id.
OneReward(pool, miner_id) ==
    /\ Len(pool) = 1
    /\ pool[1].type = "reward"
    /\ pool[1].to = miner_id

\* The pool a mine leaves, miner_id counting as supplied when `supplied`
\* holds of it: reset after an append, untouched when the append is refused.
PoolLifecycle(supplied(_)) ==
    \A t \in Threads :
        /\ Steps(t, "mine_reset", "mine_save") =>
               IF supplied(frame[t].miner_id)
               THEN OneReward(pending_transactions', frame[t].miner_id)
               ELSE pending_transactions' = <<>>
        /\ Steps(t, "add_check", "idle") =>
               pending_transactions' = pending_transactions

NotNone(miner_id) == miner_id # Null

NonEmpty(miner_id) == miner_id # Null /\ miner_id # Str("")

\* C10 as stated: a mine that appended its block leaves the pool as one reward
\* transaction to miner_id when a miner_id was supplied and empty when none
\* was; a mine that did not append leaves the pool as it was.
C10_PoolLifecycle == [][PoolLifecycle(NotNone)]_vars

\* C10 (amended): a mine that appended its block leaves the pool as one
\* reward transaction to miner_id when miner_id is a non-empty string, and
\* empty when miner_id is None or the empty string; a mine that did not append
\* leaves the pool as it was.
C10_PoolLifecycleNonEmptyMiner == [][PoolLifecycle(NonEmpty)]_vars

\* A mine for "m1" has appended its block and left its reward in the pool,
\* after another mine was turned away at the head re-check.
C10_Witness ==
    \E t \in Threads :
        /\ pc[t] = "mine_save"
        /\ frame[t].miner_id = Str("m1")
        /\ OneReward(pending_transactions, Str("m1"))
        /\ last.op = "mine"
        /\ last.outcome = "not_added"

\* C12: a ledger constructed with no saved state has a chain of exactly one
\* block, with index 0 and previous_hash "0", an empty pool, and a genesis hash
\* that is the digest of the block's index, timestamp, transactions,
\* previous_hash and nonce.
C12_FreshLedger ==
    last.op = "init" =>
        /\ Len(chain) = 1
        /\ chain[1].index = 0
        /\ chain[1].previous_hash = Str("0")
        /\ pending_transactions = <<>>
        /\ "hash" \in DOMAIN chain[1]
        /\ chain[1].hash = digest_of_fields(chain[1])

\* A ledger has just been constructed, at a time later than 0, and saved.
C12_Witness ==
    /\ last.op = "init"
    /\ chain[1].timestamp > 0
    /\ file = save_chain(chain, pending_transactions)

\* C15: compute_hash gives the same value before and after the block is
\* sealed, so every block of the chain has hash = compute_hash().
C15_HashIndependentOfSealing ==
    \A i \in 1..Len(chain) :
        "hash" \in DOMAIN chain[i] /\ chain[i].hash = compute_hash(chain[i])

\* The chain after the step is the chain before it with one block added.
GrewByOne == Len(chain') = Len(chain) + 1 /\ SubSeq(chain', 1, Len(chain)) = chain

\* C17: run with no other call in between, mine on a non-empty pool appends
\* exactly one block: its index is the head's index + 1, its previous_hash the
\* head's hash, its transactions the pool as it was, in order; the blocks
\* before it are unchanged.
C17_MineAppendsOneBlock ==
    [][(last'.op = "mine" /\ pending_transactions # <<>>) =>
          /\ last'.outcome = "mined"
          /\ GrewByOne
          /\ LET head == chain[Len(chain)]
                 new == chain'[Len(chain')]
             IN  /\ new.index = head.index + 1
                 /\ new.previous_hash = head.hash
                 /\ new.transactions = pending_transactions
      ]_vars

\* A block holding two different transactions was mined.
C17_Witness ==
    /\ last.op = "mine"
    /\ last.outcome = "mined"
    /\ LET sealed == chain[Len(chain)].transactions
       IN  Len(sealed) = 2 /\ sealed[1] # sealed[2]

\* C20: the chain never gets shorter: submit leaves it as it is, a mine that
\* succeeds adds one block and keeps the others, fork resolution changes it
\* only to a strictly longer one and never changes the pool.
C20_ChainNeverShrinks ==
    [][/\ Len(chain') >= Len(chain)
       /\ last'.op = "submit" => chain' = chain
       /\ last'.op = "mine" =>
              IF last'.outcome = "mined" THEN GrewByOne ELSE chain' = chain
       /\ last'.op = "consensus" =>
              /\ chain' = chain \/ Len(chain') > Len(chain)
              /\ pending_transactions' = pending_transactions
      ]_vars

\* A fork resolution replaced a chain that had a mined block, the reward for
\* it waiting in the pool.
C20_Witness ==
    /\ Resolved("replaced")
    /\ \E k \in 1..Len(pending_transactions) :
           pending_transactions[k].type = "reward"

\* The digest of a candidate record's five fields, an absent nonce read as 0.
record_digest(r) == completed(Drop(r, "hash")).hash

\* What C16 says of a valid chain: it is not empty, and every record after
\* the first links to the hash of the one before it and has a hash that
\* begins with DIFFICULTY zeros and is the digest of its fields, a hash being
\* the one stated, or the digest when none is stated.
ValidAsStated(c) ==
    /\ c # <<>>
    /\ \A i \in 2..Len(c) :
           /\ c[i].previous_hash = record_hash(c[i - 1])
           /\ StartsWithZeros(record_hash(c[i]))
           /\ record_hash(c[i]) = record_digest(c[i])

C16_WitnessRejected ==
    /\ last.op = "is_chain_valid"
    /\ ~last.result
    /\ \E i \in 2..Len(last.cand) :
           /\ record_hash(last.cand[i]) = record_digest(last.cand[i])
           /\ ~StartsWithZeros(record_hash(last.cand[i]))

\* Where the transactions of product p are: <<i, j>> for the j-th transaction
\* of the i-th block, <<0, k>> for the k-th entry of the pool.
PlacesOf(p) ==
    UNION { { <<i, j>> : j \in { j \in 1..Len(chain[i].transactions) :
                  Get(chain[i].transactions[j], "product_id", Null) = p } } :
            i \in 1..Len(chain) }
    \cup
    { <<0, k>> : k \in { k \in 1..Len(pending_transactions) :
                            Get(pending_transactions[k], "product_id", Null) = p } }

\* The history entry a place calls for: the transaction, tagged with the index
\* of its block, or with None when it is pending.
EntryAt(place) ==
    LET tx == IF place[1] = 0 THEN pending_transactions[place[2]]
              ELSE chain[place[1]].transactions[place[2]]
    IN  [block_index |-> IF place[1] = 0 THEN Null ELSE Num(chain[place[1]].index),
         tx |-> tx,
         timestamp |-> IF "timestamp" \in DOMAIN tx THEN Num(tx.timestamp) ELSE Null]

\* The timestamp a history entry is ordered by, a missing one read as 0.
TimeOf(e) == IF "timestamp" \in DOMAIN e.tx THEN e.tx.timestamp ELSE 0

\* C13: product_history(p) returns exactly the transactions of product p in
\* the sealed blocks and in the pool, each as often as it is there, in
\* ascending order of timestamp (a missing one read as 0), sealed ones tagged
\* with the index of their block and pending ones as pending; the query
\* changes neither chain nor pool.
C13_HistoryComplete ==
    [][last'.op = "history" =>
          LET h == last'.history
              places == PlacesOf(last'.product_id)
          IN  /\ Len(h) = Cardinality(places)
              /\ \A e \in { h[k] : k \in 1..Len(h) } \cup { EntryAt(l) : l \in places } :
                     Cardinality({ k \in 1..Len(h) : h[k] = e })
                         = Cardinality({ l \in places : EntryAt(l) = e })
              /\ \A a, b \in 1..Len(h) : a < b => TimeOf(h[a]) <= TimeOf(h[b])
              /\ chain' = chain
              /\ pending_transactions' = pending_transactions
              /\ file' = file
      ]_vars

\* A history with a sealed and a pending entry, the pending one the earlier.
C13_Witness ==
    /\ last.op = "history"
    /\ Len(last.history) = 2
    /\ last.history[1].block_index = Null
    /\ last.history[2].block_index # Null
    /\ TimeOf(last.history[1]) < TimeOf(last.history[2])

\* A history that holds a transaction without a timestamp.
C13_WitnessNoTimestamp ==
    /\ last.op = "history"
    /\ \E k \in 1..Len(last.history) : last.history[k].timestamp = Null

\* C14: saving a ledger and loading what was saved gives back the chain, every
\* block with its index, timestamp, transactions, previous_hash, nonce and
\* hash, and the pool, in the same order.
C14_SaveLoadRoundTrip ==
    [][last'.op = "reload" =>
          /\ Len(chain') = Len(chain)
          /\ \A i \in 1..Len(chain) :
                 /\ DOMAIN chain'[i] = BlockKeys
                 /\ \A key \in BlockKeys : chain'[i][key] = chain[i][key]
          /\ pending_transactions' = pending_transactions
      ]_vars

\* A ledger was saved and loaded whose chain has a block with hash None and
\* a block mined locally with a nonce other than 0.
C14_Witness ==
    /\ last.op = "reload"
    /\ \E i \in 1..Len(chain) : chain[i].hash = Null
    /\ chain[Len(chain)].nonce > 0
    /\ chain[Len(chain)].transactions # PeerTxs

\* Every transaction of the ledger: those of the blocks after the genesis
\* block, in chain order, then those of the pool.
RECURSIVE Sealed(_)
Sealed(ch) ==
    IF Len(ch) <= 1 THEN <<>>
    ELSE Sealed(SubSeq(ch, 1, Len(ch) - 1)) \o ch[Len(ch)].transactions

Ledger(ch, pool) == Sealed(ch) \o pool

\* s is t with one record added at the end.
OneMore(s, t) == Len(s) = Len(t) + 1 /\ SubSeq(s, 1, Len(t)) = t

\* C19: with submit and mine run one after the other, a submitted transaction
\* is sealed in at most one block and is not in the pool once the mine that
\* sealed it has returned: submit adds one record to the ledger's
\* transactions, mine adds none or the reward it has just made, neither
\* removes or repeats one, and nothing of the block just sealed is in the pool.
C19_SealedOnce ==
    [][/\ last'.op = "submit" =>
              OneMore(Ledger(chain', pending_transactions'),
                      Ledger(chain, pending_transactions))
       /\ last'.op = "mine" =>
              LET before == Ledger(chain, pending_transactions)
                  after == Ledger(chain', pending_transactions')
              IN  \/ after = before
                  \/ /\ OneMore(after, before)
                     /\ nextId' = nextId + 1
                     /\ after[Len(after)].type = "reward"
                     /\ after[Len(after)].tx_id = uuid(nextId')
       /\ (last'.op = "mine" /\ last'.outcome = "mined") =>
              \A k \in 1..Len(pending_transactions') :
                  \A j \in 1..Len(chain'[Len(chain')].transactions) :
                      pending_transactions'[k] # chain'[Len(chain')].transactions[j]
      ]_vars

\* A second block was mined: it holds the reward for the first and not the
\* transaction the first one sealed.
C19_Witness ==
    /\ last.op = "mine"
    /\ last.outcome = "mined"
    /\ Len(chain) = 3
    /\ chain[2].transactions[1].type # "reward"
    /\ chain[3].transactions[1].type = "reward"
    /\ Len(chain[3].transactions) = 1

\* The call that has just ended was left by a failed save.
SaveFailed(l) == "outcome" \in DOMAIN l /\ l.outcome = "save_failed"

\* C18: when the save inside submit, mine or chain replacement fails, chain
\* and pool are what the call leaves when the save succeeds: submit has added
\* its record to the pool; mine has added its block, holding the pool, and has
\* reset the pool, so the block's transactions are no longer pending; chain
\* replacement has installed the candidate.
C18_FailedSaveKeepsResult ==
    [][SaveFailed(last') =>
          /\ last'.op = "submit" =>
                 /\ chain' = chain
                 /\ OneMore(pending_transactions', pending_transactions)
          /\ last'.op = "mine" =>
                 /\ GrewByOne
                 /\ chain'[Len(chain')].transactions = pending_transactions
                 /\ IF rewarded(last'.miner_id)
                    THEN OneReward(pending_transactions', last'.miner_id)
                    ELSE pending_transactions' = <<>>
          /\ last'.op = "consensus" =>
                 /\ chain' = rebuilt_chain(last'.cand)
                 /\ pending_transactions' = pending_transactions
      ]_vars

\* C11: the transactions of a sealed block never change, whatever is done
\* later to the record submit returned, to the record in the pool or to the
\* metadata object the caller passed in.
C11_SealedContentFrozen ==
    [][\A i \in 1..Len(chain) :
          /\ i <= Len(chain')
          /\ chain'[i].transactions = chain[i].transactions
      ]_vars

====
